---- MODULE Spec2Model ----
(***************************************************************************)
(* Model of canvas_calendar_parser.py: CanvasCalendarParser (the load,     *)
(* the filter, the title formatting) and main (grouping and printing).     *)
(*                                                                         *)
(* A Python str is a sequence of one-character strings; positions are      *)
(* 1-based.  The regular expressions of the source are evaluated the way   *)
(* Python's re module evaluates them: leftmost match, greedy quantifiers,  *)
(* backtracking to the longest alternative that lets the rest match.       *)
(***************************************************************************)
EXTENDS Integers, Sequences, FiniteSets, TLC

(***************************************************************************)
(* Characters                                                              *)
(***************************************************************************)

\* The ASCII characters 32 (space) to 95 in code-point order.
PrintableLow ==
    << " ", "!", "\"", "#", "$", "%", "&", "'", "(", ")", "*", "+", ",", "-",
       ".", "/", "0", "1", "2", "3", "4", "5", "6", "7", "8", "9", ":", ";",
       "<", "=", ">", "?", "@", "A", "B", "C", "D", "E", "F", "G", "H", "I",
       "J", "K", "L", "M", "N", "O", "P", "Q", "R", "S", "T", "U", "V", "W",
       "X", "Y", "Z", "[", "\\", "]", "^", "_" >>

\* The ASCII characters 97 to 126 in code-point order.
PrintableHigh ==
    << "a", "b", "c", "d", "e", "f", "g", "h", "i", "j", "k", "l", "m", "n",
       "o", "p", "q", "r", "s", "t", "u", "v", "w", "x", "y", "z", "{", "|",
       "}", "~" >>

OrdTable ==
    [c \in {PrintableLow[i] : i \in 1..Len(PrintableLow)}
            \cup {PrintableHigh[i] : i \in 1..Len(PrintableHigh)} |->
        IF \E i \in 1..Len(PrintableLow) : PrintableLow[i] = c
        THEN 31 + (CHOOSE i \in 1..Len(PrintableLow) : PrintableLow[i] = c)
        ELSE 96 + (CHOOSE i \in 1..Len(PrintableHigh) : PrintableHigh[i] = c)]

\* ord(c): the code point str comparison goes by.
Ord(c) ==
    CASE c = "\t" -> 9
      [] c = "\n" -> 10
      [] c = "\r" -> 13
      [] OTHER -> OrdTable[c]

\* [A-Z]
Upper == {"A", "B", "C", "D", "E", "F", "G", "H", "I", "J", "K", "L", "M",
          "N", "O", "P", "Q", "R", "S", "T", "U", "V", "W", "X", "Y", "Z"}

\* [a-z]
Lower == {"a", "b", "c", "d", "e", "f", "g", "h", "i", "j", "k", "l", "m",
          "n", "o", "p", "q", "r", "s", "t", "u", "v", "w", "x", "y", "z"}

\* \d
Digit == {"0", "1", "2", "3", "4", "5", "6", "7", "8", "9"}

\* [- ]
Sep == {"-", " "}

\* [- :], the lookahead after a section suffix
SlugEnd == {"-", " ", ":"}

\* [\[\]], the complement of [^\[\]]
Bracket == {"[", "]"}

\* What str.strip() removes (the whitespace of the modelled alphabet).
Whitespace == {" ", "\t", "\n", "\r"}

(***************************************************************************)
(* str operations                                                          *)
(***************************************************************************)

Max(S) == CHOOSE x \in S : \A y \in S : y <= x

Min(S) == CHOOSE x \in S : \A y \in S : x <= y

\* s[i-1:j] of Python, 1-based and inclusive; empty when j < i.
Slice(s, i, j) == IF j < i THEN << >> ELSE SubSeq(s, i, j)

\* s.startswith(p, i-1): p occurs in s at position i.
OccursAt(s, p, i) ==
    /\ i + Len(p) - 1 <= Len(s)
    /\ \A k \in 1..Len(p) : s[i + k - 1] = p[k]

\* The last position of the longest run of characters of cls that starts at
\* position i; i - 1 when s[i] is not in cls (a greedy cls*).
RECURSIVE RunEnd(_, _, _)
RunEnd(s, i, cls) ==
    IF i <= Len(s) /\ s[i] \in cls THEN RunEnd(s, i + 1, cls) ELSE i - 1

\* The same for a negated class [^...].
RECURSIVE RunEndNot(_, _, _)
RunEndNot(s, i, cls) ==
    IF i <= Len(s) /\ s[i] \notin cls THEN RunEndNot(s, i + 1, cls) ELSE i - 1

\* s.replace(old, ""), old not empty: every non-overlapping occurrence,
\* scanning from the left.
RECURSIVE ReplaceFrom(_, _, _)
ReplaceFrom(s, old, i) ==
    IF i > Len(s) THEN << >>
    ELSE IF OccursAt(s, old, i) THEN ReplaceFrom(s, old, i + Len(old))
    ELSE << s[i] >> \o ReplaceFrom(s, old, i + 1)

Replace(s, old) == ReplaceFrom(s, old, 1)

\* s.replace(" ", "-")
SpacesToHyphens(s) == [k \in 1..Len(s) |-> IF s[k] = " " THEN "-" ELSE s[k]]

\* s.strip()
Strip(s) ==
    LET keep == {k \in 1..Len(s) : s[k] \notin Whitespace}
    IN  IF keep = {} THEN << >> ELSE SubSeq(s, Min(keep), Max(keep))

\* s.rstrip('-')
RStripHyphen(s) ==
    LET keep == {k \in 1..Len(s) : s[k] # "-"}
    IN  IF keep = {} THEN << >> ELSE SubSeq(s, 1, Max(keep))

\* s.startswith(p)
StartsWith(s, p) == OccursAt(s, p, 1)

\* a < b on str: code point by code point, a proper prefix first.
StrLess(a, b) ==
    \E k \in 1..(Len(b)) :
        /\ k <= Len(a) + 1
        /\ \A j \in 1..(k - 1) : a[j] = b[j]
        /\ \/ k = Len(a) + 1
           \/ Ord(a[k]) < Ord(b[k])

(***************************************************************************)
(* _format_event: the bracket blocks                                       *)
(***************************************************************************)

\* BracketMatchEnd without the lookahead (?=\]): a block needs no closing
\* bracket.
BracketMatchEndNoLookahead(s, i) ==
    IF i <= 1 \/ i > Len(s) \/ s[i - 1] # "[" THEN 0
    ELSE IF RunEndNot(s, i, Bracket) < i THEN 0
    ELSE RunEndNot(s, i, Bracket)

\* The match of (?<=\[)[^\[\]]+(?=\]) that starts at position i: its last
\* position, 0 when there is none.  The greedy [^\[\]]+ backs off to the
\* longest run that the lookahead accepts.
BracketMatchEnd(s, i) ==
    IF i <= 1 \/ i > Len(s) \/ s[i - 1] # "[" THEN 0
    ELSE LET ends == {e \in i..RunEndNot(s, i, Bracket) :
                         e < Len(s) /\ s[e + 1] = "]"}
         IN  IF ends = {} THEN 0 ELSE Max(ends)

\* re.findall(r'(?<=\[)[^\[\]]+(?=\])', s): the matches from the left, the
\* scan resuming after each match.
RECURSIVE FindAllFrom(_, _)
FindAllFrom(s, i) ==
    IF i > Len(s) THEN << >>
    ELSE LET e == BracketMatchEnd(s, i)
         IN  IF e = 0 THEN FindAllFrom(s, i + 1)
             ELSE << SubSeq(s, i, e) >> \o FindAllFrom(s, e + 1)

FindAllBrackets(s) == FindAllFrom(s, 1)

(***************************************************************************)
(* _format_event: the course code                                          *)
(***************************************************************************)

\* The optional group (?:[- ][A-Z\d]{0,3}(?=[- :])){0,1} after position b:
\* the last position it consumes, b when it matches nothing.  {0,3} is
\* greedy, so the longest suffix the lookahead accepts wins.
SuffixEnd(s, b) ==
    IF b + 1 > Len(s) \/ s[b + 1] \notin Sep THEN b
    ELSE LET ks == {k \in 0..3 :
                       /\ b + 2 + k <= Len(s)
                       /\ \A j \in 1..k : s[b + 1 + j] \in (Upper \cup Digit)
                       /\ s[b + 2 + k] \in SlugEnd}
         IN  IF ks = {} THEN b ELSE b + 1 + Max(ks)

\* [A-Z]{n}[- ]\d{4} at position i.
CodeAt(s, i, n) ==
    /\ i + n + 4 <= Len(s)
    /\ \A j \in 0..(n - 1) : s[i + j] \in Upper
    /\ s[i + n] \in Sep
    /\ \A j \in 1..4 : s[i + n + j] \in Digit

\* The match of the course-code pattern that starts at position i: its last
\* position, 0 when there is none.  [A-Z]{3,4} tries four letters first.
SlugMatchEnd(s, i) ==
    IF CodeAt(s, i, 4) THEN SuffixEnd(s, i + 8)
    ELSE IF CodeAt(s, i, 3) THEN SuffixEnd(s, i + 7)
    ELSE 0

\* re.search(pattern, class_name): << start, end >> of the leftmost match,
\* << >> for None.
SearchSlug(s) ==
    LET starts == {i \in 1..Len(s) : SlugMatchEnd(s, i) # 0}
    IN  IF starts = {} THEN << >>
        ELSE << Min(starts), SlugMatchEnd(s, Min(starts)) >>

\* SlugGroups with the suffix group capturing: (full code, suffix), the
\* suffix None (here empty) when the group matched nothing.
SlugGroupsWithSuffix(s, m) ==
    LET b == IF CodeAt(s, m[1], 4) THEN m[1] + 8 ELSE m[1] + 7
    IN  << SubSeq(s, m[1], m[2]), Slice(s, b + 1, m[2]) >>

\* match.groups(): the pattern has one capturing group, the outer
\* parentheses; the suffix group is (?:...), which captures nothing.
SlugGroups(s, m) == << SubSeq(s, m[1], m[2]) >>

(***************************************************************************)
(* _format_with_slug                                                       *)
(***************************************************************************)

\* [s.replace(" ", "-") for s in slugs if s]
RECURSIVE CleanSlugs(_)
CleanSlugs(slugs) ==
    IF slugs = << >> THEN << >>
    ELSE (IF Head(slugs) = << >> THEN << >>
          ELSE << SpacesToHyphens(Head(slugs)) >>) \o CleanSlugs(Tail(slugs))

ColonSpace == << ":", " " >>

\* The return statement _format_with_slug takes: "single" (line 97),
\* "shared" (line 102) or "first" (line 105).
SlugBranch(slugs) ==
    LET sl == CleanSlugs(slugs)
        base_code == Slice(sl[1], 1, Min({8, Len(sl[1])}))
    IN  IF Len(sl) = 1 THEN "single"
        ELSE IF \A k \in 1..Len(sl) : StartsWith(sl[k], base_code) THEN "shared"
        ELSE "first"

FormatWithSlug(slugs, assignment) ==
    LET sl == CleanSlugs(slugs)
        base_code == Slice(sl[1], 1, Min({8, Len(sl[1])}))
    IN  IF Len(sl) = 1 THEN sl[1] \o ColonSpace \o assignment
        ELSE IF \A k \in 1..Len(sl) : StartsWith(sl[k], base_code)
             THEN RStripHyphen(base_code) \o ColonSpace \o assignment
        ELSE sl[1] \o ColonSpace \o assignment

(***************************************************************************)
(* _clean_class_name                                                       *)
(***************************************************************************)

Letter == Upper \cup Lower

Alnum == Upper \cup Lower \cup Digit

Combined == << "_", "C", "o", "m", "b", "i", "n", "e", "d" >>

\* Of the ways << k, m >> to split the two leading greedy quantifiers, the
\* one the backtracking finds first: the most for the first, then the most
\* for the second.
FirstChoice(cands) ==
    LET k == Max({c[1] : c \in cands})
    IN  << k, Max({c[2] : c \in {d \in cands : d[1] = k}}) >>

\* RandomIdMatchEnd with [A-Za-z\d]* for [A-Za-z\d]{5,}: any digit starts
\* an ID.
RandomIdAnyLength(s, i) ==
    LET cands == {c \in (0..(RunEnd(s, i, Sep) - i + 1)) \X (0..Len(s)) :
                     /\ c[2] <= RunEnd(s, i + c[1], Letter) - (i + c[1]) + 1
                     /\ i + c[1] + c[2] <= Len(s)
                     /\ s[i + c[1] + c[2]] \in Digit}
    IN  IF cands = {} THEN 0
        ELSE LET c == FirstChoice(cands)
                 q == i + c[1] + c[2]
             IN  RunEnd(s, RunEnd(s, q + 1, Alnum) + 1, Sep)

\* r"[- ]*[A-Za-z]*\d[A-Za-z\d]{5,}[- ]*" at position i: the last position
\* of the match, 0 when there is none.
RandomIdMatchEnd(s, i) ==
    LET cands == {c \in (0..(RunEnd(s, i, Sep) - i + 1)) \X (0..Len(s)) :
                     /\ c[2] <= RunEnd(s, i + c[1], Letter) - (i + c[1]) + 1
                     /\ i + c[1] + c[2] <= Len(s)
                     /\ s[i + c[1] + c[2]] \in Digit
                     /\ RunEnd(s, i + c[1] + c[2] + 1, Alnum)
                            - (i + c[1] + c[2]) >= 5}
    IN  IF cands = {} THEN 0
        ELSE LET c == FirstChoice(cands)
                 q == i + c[1] + c[2]
             IN  RunEnd(s, RunEnd(s, q + 1, Alnum) + 1, Sep)

\* r"[- ]*[A-Z][a-z]+[- ]\d{4}[- ]*" at position i.
SemesterMatchEnd(s, i) ==
    LET cands == {c \in (0..(RunEnd(s, i, Sep) - i + 1)) \X (1..Len(s)) :
                     /\ i + c[1] <= Len(s)
                     /\ s[i + c[1]] \in Upper
                     /\ c[2] <= RunEnd(s, i + c[1] + 1, Lower) - (i + c[1])
                     /\ i + c[1] + c[2] + 5 <= Len(s)
                     /\ s[i + c[1] + c[2] + 1] \in Sep
                     /\ \A j \in 2..5 : s[i + c[1] + c[2] + j] \in Digit}
    IN  IF cands = {} THEN 0
        ELSE LET c == FirstChoice(cands)
             IN  RunEnd(s, i + c[1] + c[2] + 6, Sep)

\* r"_Combined" at position i.
CombinedMatchEnd(s, i) ==
    IF OccursAt(s, Combined, i) THEN i + Len(Combined) - 1 ELSE 0

\* The patterns list of _clean_class_name, by position in the list.
PatternMatchEnd(pat, s, i) ==
    CASE pat = 1 -> RandomIdMatchEnd(s, i)
      [] pat = 2 -> SemesterMatchEnd(s, i)
      [] pat = 3 -> CombinedMatchEnd(s, i)

\* re.sub(pattern, "", s): every match removed, the scan resuming after each
\* (no pattern of the list matches the empty string).
RECURSIVE SubFrom(_, _, _)
SubFrom(pat, s, i) ==
    IF i > Len(s) THEN << >>
    ELSE LET e == PatternMatchEnd(pat, s, i)
         IN  IF e = 0 THEN << s[i] >> \o SubFrom(pat, s, i + 1)
             ELSE SubFrom(pat, s, e + 1)

Sub(pat, s) == SubFrom(pat, s, 1)

CleanClassName(class_name, assignment) ==
    Sub(3, Sub(2, Sub(1, class_name))) \o ColonSpace \o assignment

(***************************************************************************)
(* _format_event                                                           *)
(***************************************************************************)

\* class_name_matches[-1]
ClassName(event_name) ==
    LET class_name_matches == FindAllBrackets(event_name)
    IN  class_name_matches[Len(class_name_matches)]

\* event_name.replace(f"[{class_name}]", "").strip()
Assignment(event_name) ==
    Strip(Replace(event_name, << "[" >> \o ClassName(event_name) \o << "]" >>))

FormatEvent(event_name) ==
    IF FindAllBrackets(event_name) = << >> THEN event_name
    ELSE LET class_name == ClassName(event_name)
             assignment == Assignment(event_name)
             class_slug_match == SearchSlug(class_name)
         IN  IF class_slug_match # << >>
             THEN FormatWithSlug(SlugGroups(class_name, class_slug_match),
                                 assignment)
             ELSE CleanClassName(class_name, assignment)

(***************************************************************************)
(* The titles _format_event is applied to                                  *)
(***************************************************************************)

\* The most tokens a generated bracket block is made of.
MaxBlockTokens == 2

\* Department letters, course numbers and section suffixes of section codes.
Depts ==
    { <<"M", "A", "T", "H">>,
      <<"B", "I", "O">> }

Numbers ==
    { <<"2", "1", "6", "4">> }

Sections ==
    { <<"0", "0", "1">>,
      <<"0", "0", "2">>,
      <<"H", "1">> }

\* <dept>-<number>-<section>, such as MATH-2164-001
SectionCodes ==
    {d \o << "-" >> \o n \o << "-" >> \o x :
        d \in Depts, n \in Numbers, x \in Sections}

\* Two section codes of one course, such as MATH-2164-001, MATH-2164-002
SectionPairs ==
    {c[1] \o << ",", " " >> \o c[2] :
        c \in {d \in SectionCodes \X SectionCodes :
                  d[1] # d[2] /\ SubSeq(d[1], 1, 8) = SubSeq(d[2], 1, 8)}}

\* What class-name blocks are made of: course codes, names, semester
\* identifiers, generated IDs, combined-section markers.
Tokens ==
    << <<"M", "A", "T", "H", " ", "2", "1", "6", "4">>,
       <<"B", "I", "O", "-", "1", "2", "3", "4", "-", "0", "0", "1">>,
       <<"C", "H", "E", "M", "-", "1", "0", "1", "0", "-", "L", ":">>,
       <<"-">>,
       <<"C", "a", "l", "c", "u", "l", "u", "s">>,
       <<"I", "n", "t", "r", "o", " ", "t", "o", " ", "A", "r", "t">>,
       <<"U", "n", "i", "t", " ", "1", "2">>,
       <<"F", "a", "l", "l", " ", "2", "0", "2", "4">>,
       <<"S", "p", "r", "i", "n", "g", "-", "2", "0", "2", "5">>,
       <<"a", "1", "b", "2", "c", "3", "d", "4">>,
       <<"A", "r", "t", "_", "C", "o", "m", "b", "i", "n", "e", "d">>,
       <<"_", "C", "o", "m", "b", "i", "n", "e", "d">> >>

\* The blocks of n tokens, joined by single spaces.
RECURSIVE TokenBlocks(_)
TokenBlocks(n) ==
    IF n = 1 THEN {Tokens[k] : k \in 1..Len(Tokens)}
    ELSE {b \o << " " >> \o Tokens[k] :
             b \in TokenBlocks(n - 1), k \in 1..Len(Tokens)}

\* Blocks met in exports that the token blocks do not give.
SpecialBlocks ==
    { <<"M", "A", "T", "H", " ", "2", "1", "6", "4", " ", "-", " ", "C", "a", "l", "c", "u", "l", "u", "s">>,
      <<"M", "A", "T", "H", "-", "2", "1", "6", "4", "-", "0", "0", "1", " ", "M", "A", "T", "H", "-", "2", "1", "6", "4", "-", "0", "0", "2">>,
      <<"E", "N", "G", "L", " ", "1", "1", "0", "1", " ", "0", "2", " ", "W", "r", "i", "t", "i", "n", "g">>,
      <<"B", "i", "o", " ", "-", " ", "a", "1", "b", "2", "c", "3", "d", "4", " ", "-", " ", "F", "a", "l", "l", " ", "2", "0", "2", "4", "_", "C", "o", "m", "b", "i", "n", "e", "d">>,
      <<"P", "H", "Y", "S", "-", "2", "2", "1", "1", "K">>,
      <<"x">> }

Blocks ==
    SectionCodes \cup SectionPairs \cup SpecialBlocks
        \cup UNION {TokenBlocks(n) : n \in 1..MaxBlockTokens}

\* Assignment texts.
Texts ==
    { <<"H", "o", "m", "e", "w", "o", "r", "k", " ", "3">>,
      <<"Q", "u", "i", "z", "\n">> }

InBrackets(b) == << "[" >> \o b \o << "]" >>

\* The titles with a bracket block: the block first, the block last, the
\* block alone, the block twice, and a second block after a first one.
BlockTitles ==
    UNION {{InBrackets(b) \o << " " >> \o x,
            x \o << " " >> \o InBrackets(b),
            InBrackets(b),
            InBrackets(b) \o << " " >> \o x \o << " ", " " >> \o InBrackets(b),
            << "[", "D", "r", "a", "f", "t", "]", " " >> \o x \o << " " >>
                \o InBrackets(b)} :
           b \in Blocks, x \in Texts}

\* Titles with no bracket block.
PlainTitles ==
    { <<"H", "o", "m", "e", "w", "o", "r", "k", " ", "3">>,
      <<" ", " ", "O", "f", "f", "i", "c", "e", " ", "h", "o", "u", "r", "s", " ">>,
      <<>>,
      <<"[", "]", " ", "x">>,
      <<"[", "u", "n", "c", "l", "o", "s", "e", "d">>,
      <<"c", "l", "o", "s", "e", "d", "]">>,
      <<"]", "[">>,
      <<"a", "[", "b", "[", "c">>,
      <<"[", "[", "]", "]">>,
      <<"E", "s", "s", "a", "y", ":", " ", "p", "a", "r", "t", " ", "1">>,
      <<"M", "A", "T", "H", "-", "2", "1", "6", "4", "-", "0", "0", "1", " ", "H", "o", "m", "e", "w", "o", "r", "k", " ", "3">>,
      <<"\t", "L", "a", "b", " ", "[">>,
      <<"N", "o", "t", "e", "s", ":", " ", "[", "x", "\r", "\n">>,
      <<"F", "a", "l", "l", " ", "2", "0", "2", "4", "_", "C", "o", "m", "b", "i", "n", "e", "d">> }

Titles == BlockTitles \cup PlainTitles

(***************************************************************************)
(* The calendars parse_calendar is run on                                  *)
(***************************************************************************)

\* The most events a calendar holds.
MaxEvents == 3

\* sys.argv[1] when given, and the default of main.
DefaultPath == "canvas_export.ics"

OtherPath == "fall.ics"

\* The events calendars are made of: event.name, and event.begin as a date
\* << year, month, day >> and a time of day << hour, minute >>.
EventPool ==
    << [name |-> <<"[", "M", "A", "T", "H", "-", "2", "1", "6", "4", "-", "0", "0", "1", "]", " ", "H", "o", "m", "e", "w", "o", "r", "k", " ", "3">>,
          begin |-> [date |-> << 2024, 9, 12 >>, time |-> << 9, 0 >>]],
       [name |-> <<"[", "I", "n", "t", "r", "o", " ", "t", "o", " ", "A", "r", "t", "]", " ", "E", "s", "s", "a", "y">>,
          begin |-> [date |-> << 2024, 9, 12 >>, time |-> << 23, 59 >>]],
       [name |-> <<"P", "A", "L", " ", "S", "e", "s", "s", "i", "o", "n", " ", "[", "M", "A", "T", "H", "-", "2", "1", "6", "4", "-", "0", "0", "1", "]">>,
          begin |-> [date |-> << 2024, 9, 12 >>, time |-> << 14, 0 >>]],
       [name |-> <<"[", "O", "P", "A", "L", "-", "1", "0", "1", "0", "-", "0", "0", "1", "]", " ", "L", "a", "b">>,
          begin |-> [date |-> << 2024, 10, 1 >>, time |-> << 8, 30 >>]],
       [name |-> <<"[", "S", "a", "f", "e", "t", "y", " ", "T", "r", "a", "i", "n", "i", "n", "g", "]", " ", "M", "o", "d", "u", "l", "e", " ", "1">>,
          begin |-> [date |-> << 2024, 9, 3 >>, time |-> << 10, 0 >>]],
       [name |-> <<"[", "P", "a", "l", " ", "t", "r", "a", "i", "n", "i", "n", "g", " ", "F", "a", "l", "l", " ", "2", "0", "2", "4", "]", " ", "N", "o", "t", "e", "s">>,
          begin |-> [date |-> << 2024, 9, 3 >>, time |-> << 23, 59 >>]],
       [name |-> <<"O", "f", "f", "i", "c", "e", " ", "h", "o", "u", "r", "s">>,
          begin |-> [date |-> << 2024, 10, 1 >>, time |-> << 16, 0 >>]] >>

\* calendar.events, in the order the loop meets them.
Calendars ==
    UNION {[1..n -> {EventPool[k] : k \in 1..Len(EventPool)}] : n \in 0..MaxEvents}

(***************************************************************************)
(* State                                                                   *)
(***************************************************************************)

VARIABLES
    file_path,      \* self.file_path
    calendar,       \* the events Calendar(f.read()) yields when it parses
    pc,             \* where the run of main is
    handle,         \* the file object f: "none", "open" or "closed"
    idx,            \* the events the loop of parse_calendar has met
    events_by_day,  \* the defaultdict: date -> list of labels
    raised,         \* the exception in flight, << >> when none
    day_idx,        \* the day blocks main has printed
    out,            \* the lines printed to standard output
    exit_status,    \* the exit status of the process, -1 while it runs
    event_name,     \* the argument of a _format_event call
    ret,            \* the return statement that call took, "none" before
    slug_call,      \* the _format_with_slug call it made, << >> when none
    label           \* what the call returned

vars == << file_path, calendar, pc, handle, idx, events_by_day, raised,
           day_idx, out, exit_status, event_name, ret, slug_call, label >>

mainVars == << file_path, calendar, pc, handle, idx, events_by_day, raised,
               day_idx, out, exit_status >>

formatVars == << event_name, ret, slug_call, label >>

(***************************************************************************)
(* parse_calendar                                                          *)
(***************************************************************************)

NotFoundPrefix == "Could not find ICS file: "

ParsePrefix == "Failed to parse ICS file: "

\* FileNotFoundError(f"Could not find ICS file: {self.file_path}")
FileNotFoundError(path) ==
    [type |-> "FileNotFoundError", msg |-> << NotFoundPrefix, path >>]

\* ValueError(f"Failed to parse ICS file: {e}")
ValueError(e) == [type |-> "ValueError", msg |-> << ParsePrefix, e >>]

\* if not self.file_path.exists(): raise FileNotFoundError(...)
CheckExists ==
    /\ pc = "exists"
    /\ \E exists \in BOOLEAN :
          IF exists
          THEN pc' = "open" /\ UNCHANGED raised
          ELSE pc' = "raised" /\ raised' = << FileNotFoundError(file_path) >>
    /\ UNCHANGED << file_path, calendar, handle, idx, events_by_day, day_idx,
                    out, exit_status, formatVars >>

\* open(self.file_path, 'r', encoding='utf-8'): the file object, or an
\* OSError that the except clause turns into a ValueError.
OpenFile ==
    /\ pc = "open"
    /\ \E ok \in BOOLEAN :
          IF ok
          THEN pc' = "read" /\ handle' = "open" /\ UNCHANGED raised
          ELSE /\ pc' = "raised"
               /\ raised' = << ValueError("open") >>
               /\ UNCHANGED handle
    /\ UNCHANGED << file_path, calendar, idx, events_by_day, day_idx, out,
                    exit_status, formatVars >>

\* f.read() inside the with block: the text, or a decoding or I/O error;
\* the with statement closes f before the except clause runs.
ReadFile ==
    /\ pc = "read"
    /\ \E ok \in BOOLEAN :
          IF ok
          THEN pc' = "parse" /\ UNCHANGED << handle, raised >>
          ELSE /\ pc' = "raised"
               /\ handle' = "closed"
               /\ raised' = << ValueError("read") >>
    /\ UNCHANGED << file_path, calendar, idx, events_by_day, day_idx, out,
                    exit_status, formatVars >>

\* ParseFile without the with statement: f.close() after the parse, which an
\* exception skips.
ParseFileLeak ==
    /\ pc = "parse"
    /\ \E ok \in BOOLEAN :
          IF ok
          THEN pc' = "loop" /\ handle' = "closed" /\ UNCHANGED raised
          ELSE /\ pc' = "raised"
               /\ raised' = << ValueError("parse") >>
               /\ UNCHANGED handle
    /\ UNCHANGED << file_path, calendar, idx, events_by_day, day_idx, out,
                    exit_status, formatVars >>

\* Calendar(...) inside the with block, then the end of the block: f is
\* closed whether the parser returns or raises.
ParseFile ==
    /\ pc = "parse"
    /\ handle' = "closed"
    /\ \E ok \in BOOLEAN :
          IF ok
          THEN pc' = "loop" /\ UNCHANGED raised
          ELSE pc' = "raised" /\ raised' = << ValueError("parse") >>
    /\ UNCHANGED << file_path, calendar, idx, events_by_day, day_idx, out,
                    exit_status, formatVars >>

\* to_skip = ["PAL", "Training"]
to_skip == << << "P", "A", "L" >>,
              << "T", "r", "a", "i", "n", "i", "n", "g" >> >>

\* item in event_details
In(item, s) == \E i \in 1..Len(s) : OccursAt(s, item, i)

\* Skip with all() for any().
SkipAll(event_details) == \A k \in 1..Len(to_skip) : In(to_skip[k], event_details)

\* any(item in event_details for item in to_skip)
Skip(event_details) == \E k \in 1..Len(to_skip) : In(to_skip[k], event_details)

\* event.begin.date()
EventDate(event) == event.begin.date

\* events_by_day[event_date].append(event_details) on a defaultdict(list)
Append_by_day(by_day, event_date, event_details) ==
    [d \in DOMAIN by_day \cup {event_date} |->
        IF d = event_date
        THEN (IF d \in DOMAIN by_day THEN by_day[d] ELSE << >>)
                 \o << event_details >>
        ELSE by_day[d]]

\* One turn of "for event in calendar.events".
LoopEvent ==
    /\ pc = "loop"
    /\ idx < Len(calendar)
    /\ LET event == calendar[idx + 1]
       IN  events_by_day' =
               IF Skip(event.name) THEN events_by_day
               ELSE Append_by_day(events_by_day, EventDate(event),
                                  FormatEvent(event.name))
    /\ idx' = idx + 1
    /\ UNCHANGED << file_path, calendar, pc, handle, raised, day_idx, out,
                    exit_status, formatVars >>

\* return events_by_day
ReturnEvents ==
    /\ pc = "loop"
    /\ idx = Len(calendar)
    /\ pc' = "print"
    /\ UNCHANGED << file_path, calendar, handle, idx, events_by_day, raised,
                    day_idx, out, exit_status, formatVars >>

(***************************************************************************)
(* main                                                                    *)
(***************************************************************************)

\* a < b on datetime.date
DateLess(a, b) ==
    \/ a[1] < b[1]
    \/ a[1] = b[1] /\ a[2] < b[2]
    \/ a[1] = b[1] /\ a[2] = b[2] /\ a[3] < b[3]

\* sorted(): x goes after the elements that are not greater than it.
RECURSIVE InsertLabel(_, _)
InsertLabel(x, sorted) ==
    IF sorted = << >> THEN << x >>
    ELSE IF StrLess(x, Head(sorted)) THEN << x >> \o sorted
    ELSE << Head(sorted) >> \o InsertLabel(x, Tail(sorted))

RECURSIVE SortFrom(_, _)
SortFrom(seq, sorted) ==
    IF seq = << >> THEN sorted
    ELSE SortFrom(Tail(seq), InsertLabel(Head(seq), sorted))

\* SortedLabels without the sort: the labels in the order of the list.
UnsortedLabels(day_events) == day_events

\* sorted(day_events)
SortedLabels(day_events) == SortFrom(day_events, << >>)

\* sorted(events.items()): the keys in ascending order (the keys of a dict
\* differ, so the lists are never compared).
RECURSIVE SortedDays(_)
SortedDays(days) ==
    IF days = {} THEN << >>
    ELSE LET first == CHOOSE d \in days : \A e \in days \ {d} : DateLess(d, e)
         IN  << first >> \o SortedDays(days \ {first})

\* print(f"\n-- {day.strftime('%B %d, %Y (%A)')} --"): the header of a day.
HeaderLine(day) == [kind |-> "header", day |-> day, text |-> << >>]

\* print(f"{event}")
EventLine(event) == [kind |-> "event", day |-> << >>, text |-> event]

\* print(f"Error: {e}")
ErrorLine(e) == [kind |-> "error", day |-> << >>, text |-> e.msg]

\* print("Specify a file or rename it to 'canvas_export.ics' ...")
HintLine == [kind |-> "hint", day |-> << >>, text |-> << >>]

\* One turn of "for day, day_events in sorted(events.items())": the header,
\* then the labels of the day in sorted order.
PrintDay ==
    /\ pc = "print"
    /\ day_idx < Cardinality(DOMAIN events_by_day)
    /\ LET day == SortedDays(DOMAIN events_by_day)[day_idx + 1]
           day_events == SortedLabels(events_by_day[day])
       IN  out' = out \o << HeaderLine(day) >>
                     \o [k \in 1..Len(day_events) |-> EventLine(day_events[k])]
    /\ day_idx' = day_idx + 1
    /\ UNCHANGED << file_path, calendar, pc, handle, idx, events_by_day,
                    raised, exit_status, formatVars >>

\* The try block ends and main returns: the process exits with status 0.
Finish ==
    /\ pc = "print"
    /\ day_idx = Cardinality(DOMAIN events_by_day)
    /\ pc' = "done"
    /\ exit_status' = 0
    /\ UNCHANGED << file_path, calendar, handle, idx, events_by_day, raised,
                    day_idx, out, formatVars >>

\* ReportError with "except FileNotFoundError" alone: a ValueError leaves
\* main uncaught, and the interpreter exits with status 1 and a traceback on
\* standard error.
ReportOnlyNotFound ==
    /\ pc = "raised"
    /\ out' = IF raised[1].type = "FileNotFoundError"
              THEN out \o << ErrorLine(raised[1]) >>
                       \o (IF raised[1].msg = << NotFoundPrefix, DefaultPath >>
                           THEN << HintLine >> ELSE << >>)
              ELSE out
    /\ exit_status' = 1
    /\ pc' = "done"
    /\ UNCHANGED << file_path, calendar, handle, idx, events_by_day, raised,
                    day_idx, formatVars >>

\* except (FileNotFoundError, ValueError) as e: the error line, the hint
\* when the message is that of the default path, sys.exit(1).
ReportError ==
    /\ pc = "raised"
    /\ out' = out \o << ErrorLine(raised[1]) >>
                  \o (IF raised[1].msg = << NotFoundPrefix, DefaultPath >>
                      THEN << HintLine >> ELSE << >>)
    /\ exit_status' = 1
    /\ pc' = "done"
    /\ UNCHANGED << file_path, calendar, handle, idx, events_by_day, raised,
                    day_idx, formatVars >>

(***************************************************************************)
(* A call of _format_event                                                 *)
(***************************************************************************)

\* The return statement of _format_event a title takes.
ReturnPath(title) ==
    IF FindAllBrackets(title) = << >> THEN "unchanged"
    ELSE IF SearchSlug(ClassName(title)) # << >> THEN "slug"
    ELSE "clean"

\* The call self._format_with_slug(class_slug_match.groups(), assignment).
SlugCall(title) ==
    LET slugs == SlugGroups(ClassName(title), SearchSlug(ClassName(title)))
    IN  [slugs |-> slugs, assignment |-> Assignment(title),
         branch |-> SlugBranch(slugs)]

FormatEventCall ==
    /\ ret = "none"
    /\ ret' = ReturnPath(event_name)
    /\ slug_call' = IF ReturnPath(event_name) = "slug"
                    THEN << SlugCall(event_name) >> ELSE << >>
    /\ label' = FormatEvent(event_name)
    /\ UNCHANGED << event_name, mainVars >>

(***************************************************************************)
(* Specifications                                                          *)
(***************************************************************************)

\* A run of main on a calendar file.
Init ==
    /\ file_path \in {DefaultPath, OtherPath}
    /\ calendar \in Calendars
    /\ pc = "exists"
    /\ handle = "none"
    /\ idx = 0
    /\ events_by_day = << >>
    /\ raised = << >>
    /\ day_idx = 0
    /\ out = << >>
    /\ exit_status = -1
    /\ event_name = << >>
    /\ ret = "idle"
    /\ slug_call = << >>
    /\ label = << >>

Next ==
    \/ CheckExists
    \/ OpenFile
    \/ ReadFile
    \/ ParseFile
    \/ LoopEvent
    \/ ReturnEvents
    \/ PrintDay
    \/ Finish
    \/ ReportError

Spec == Init /\ [][Next]_vars

\* _format_event applied to a title.
InitFormat ==
    /\ event_name \in Titles
    /\ ret = "none"
    /\ slug_call = << >>
    /\ label = << >>
    /\ file_path = DefaultPath
    /\ calendar = << >>
    /\ pc = "idle"
    /\ handle = "none"
    /\ idx = 0
    /\ events_by_day = << >>
    /\ raised = << >>
    /\ day_idx = 0
    /\ out = << >>
    /\ exit_status = -1

NextFormat == FormatEventCall

SpecFormat == InitFormat /\ [][NextFormat]_vars

(***************************************************************************)
(* Properties of _format_event, checked under SpecFormat                   *)
(***************************************************************************)

\* The bracket blocks of a title, read off the title itself: << i, j >> with
\* "[" at i, "]" at j, and one or more characters, none a bracket, between.
BlockSpans(t) ==
    {p \in (1..Len(t)) \X (1..Len(t)) :
        /\ t[p[1]] = "[" /\ t[p[2]] = "]"
        /\ p[2] > p[1] + 1
        /\ \A k \in (p[1] + 1)..(p[2] - 1) : t[k] \notin {"[", "]"}}

HasBlock(t) == BlockSpans(t) # {}

\* The text of the last bracket block.
LastBlock(t) ==
    LET p == CHOOSE q \in BlockSpans(t) : \A r \in BlockSpans(t) : r[1] <= q[1]
    IN  SubSeq(t, p[1] + 1, p[2] - 1)

\* The title with every "[<block>]" of its last block removed, trimmed.
Trimmed(t) == Strip(Replace(t, << "[" >> \o LastBlock(t) \o << "]" >>))

\* 3-4 uppercase letters, a hyphen, 4 digits.
IsBareCode(c) ==
    /\ Len(c) \in {8, 9}
    /\ \A k \in 1..(Len(c) - 5) : c[k] \in Upper
    /\ c[Len(c) - 4] = "-"
    /\ \A k \in (Len(c) - 3)..Len(c) : c[k] \in Digit

\* A course code with a section suffix: a bare code, a hyphen, 1-3
\* alphanumeric characters.
IsSectionCode(c) ==
    \E n \in 1..3 :
        /\ Len(c) > n + 1
        /\ IsBareCode(SubSeq(c, 1, Len(c) - n - 1))
        /\ c[Len(c) - n] = "-"
        /\ \A k \in (Len(c) - n + 1)..Len(c) : c[k] \in Alnum

\* A well-formed course code, with or without section suffix.
IsCourseCode(c) == IsBareCode(c) \/ IsSectionCode(c)

\* t is "[<code>] <text>": one bracket block, a section code, then a space
\* and a text with no bracket and no whitespace at either end.
IsCodeTitle(t) ==
    /\ Cardinality(BlockSpans(t)) = 1
    /\ t[1] = "["
    /\ IsSectionCode(LastBlock(t))
    /\ LET j == Len(LastBlock(t)) + 2
       IN  /\ Len(t) > j + 1
           /\ t[j + 1] = " "
           /\ t[j + 2] \notin Whitespace /\ t[Len(t)] \notin Whitespace
           /\ \A k \in (j + 2)..Len(t) : t[k] \notin {"[", "]"}

\* C1: for every title "[<code>] <text>" whose only bracket block is a
\* course code with a section suffix, _format_event returns "<code>: <text>"
\* with the suffix kept.  The code drops the suffix: the lookahead (?=[- :])
\* finds "]" gone and nothing after the suffix.
C1_SectionSuffixKept ==
    (ret # "none" /\ IsCodeTitle(event_name)) =>
        label = LastBlock(event_name) \o << ":", " " >>
                    \o SubSeq(event_name, Len(LastBlock(event_name)) + 4,
                              Len(event_name))

\* b is "<code1>, <code2>": two section codes with the same first 8
\* characters.
IsSectionPair(b) ==
    \E k \in 1..Len(b) :
        /\ k + 1 < Len(b)
        /\ b[k] = "," /\ b[k + 1] = " "
        /\ IsSectionCode(SubSeq(b, 1, k - 1))
        /\ IsSectionCode(SubSeq(b, k + 2, Len(b)))
        /\ SubSeq(b, 1, 8) = SubSeq(b, k + 2, k + 9)

\* s with its trailing hyphens removed.
RECURSIVE NoTrailingHyphen(_)
NoTrailingHyphen(s) ==
    IF s # << >> /\ s[Len(s)] = "-"
    THEN NoTrailingHyphen(SubSeq(s, 1, Len(s) - 1)) ELSE s

\* C2: for every title whose last bracket block lists two section codes that
\* share their first 8 characters, _format_event returns
\* "<base_code>: <assignment>", base_code being the first 8 characters of the
\* first code without trailing hyphens.  The code never reaches that branch:
\* the label is the first course code, "MATH-2164" and not "MATH-216".
C2_SharedBaseCode ==
    (ret # "none" /\ HasBlock(event_name)
        /\ IsSectionPair(LastBlock(event_name))) =>
        label = NoTrailingHyphen(SubSeq(LastBlock(event_name), 1, 8))
                    \o << ":", " " >> \o Trimmed(event_name)

\* C4: a title with no bracket block is returned character for character:
\* no ": " is added, no whitespace trimmed.
C4_NoBlockUnchanged ==
    (ret # "none" /\ ~HasBlock(event_name)) => label = event_name

\* C4's case: a title with whitespace at both ends and a stray bracket has
\* been formatted.
C4_Witness ==
    /\ ret = "unchanged"
    /\ ~HasBlock(event_name)
    /\ Len(event_name) > 1
    /\ event_name[1] \in Whitespace
    /\ \E k \in 1..Len(event_name) : event_name[k] = "["
    /\ label = event_name

\* [A-Z]{3}[- ]\d{4} somewhere in b: a course code (a 4-letter code ends
\* with a 3-letter one).
HasCourseCode(b) ==
    \E i \in 1..Len(b) :
        /\ i + 7 <= Len(b)
        /\ \A k \in 0..2 : b[i + k] \in Upper
        /\ b[i + 3] \in {"-", " "}
        /\ \A k \in 4..7 : b[i + k] \in Digit

\* A run of letters and digits, at least 6 long, with a digit in it.
HasRandomId(b) ==
    \E i \in 1..Len(b) : \E j \in (i + 5)..Len(b) :
        /\ \A k \in i..j : b[k] \in Alnum
        /\ \E k \in i..j : b[k] \in Digit

\* A capitalized word, a space or hyphen, 4 digits.
HasSemester(b) ==
    \E i \in 1..Len(b) : \E m \in 1..Len(b) :
        /\ i + m + 5 <= Len(b)
        /\ b[i] \in Upper
        /\ \A k \in 1..m : b[i + k] \in Lower
        /\ b[i + m + 1] \in {"-", " "}
        /\ \A k \in 2..5 : b[i + m + k] \in Digit

HasCombined(b) ==
    \E i \in 1..Len(b) : i + 8 <= Len(b) /\ SubSeq(b, i, i + 8) = Combined

\* A block none of the cleaning rules and no course code applies to.
IsPlainBlock(b) ==
    ~HasCourseCode(b) /\ ~HasRandomId(b) /\ ~HasSemester(b) /\ ~HasCombined(b)

\* C8: when the last bracket block holds no course code, no random ID, no
\* semester identifier and no "_Combined", _format_event returns
\* "<block>: <assignment>", the block unchanged and the assignment the title
\* without "[<block>]", trimmed.
C8_PlainBlockKept ==
    (ret # "none" /\ HasBlock(event_name)
        /\ IsPlainBlock(LastBlock(event_name))) =>
        label = LastBlock(event_name) \o << ":", " " >> \o Trimmed(event_name)

\* C8's case: a plain block that holds a digit and spaces has gone through
\* the cleaning, with an assignment after it.
C8_Witness ==
    /\ ret = "clean"
    /\ IsPlainBlock(LastBlock(event_name))
    /\ \E k \in 1..Len(LastBlock(event_name)) :
          LastBlock(event_name)[k] \in Digit
    /\ \E k \in 1..Len(LastBlock(event_name)) : LastBlock(event_name)[k] = " "
    /\ Trimmed(event_name) # << >>
    /\ label # << >>

\* The part of a label before its first ": ".
LabelPrefix(l) ==
    LET ks == {k \in 1..(Len(l) - 1) : l[k] = ":" /\ l[k + 1] = " "}
    IN  IF ks = {} THEN l ELSE SubSeq(l, 1, Min(ks) - 1)

\* C9: when _format_event finds a course code, the label starts with a
\* well-formed course code: no space in it, no hyphen at its end.  The code
\* lets the suffix group match a lone separator: "MATH 2164 - Calculus"
\* gives "MATH-2164-".
C9_WellFormedPrefix ==
    ret = "slug" => IsCourseCode(LabelPrefix(label))

\* C10: every _format_with_slug call of _format_event gets one non-empty
\* slug and returns "<slug with hyphens for spaces>: <assignment>"; the
\* shared-base and the first-piece-wins branches are never taken.
C10_SingleSlug ==
    slug_call # << >> =>
        LET c == slug_call[1]
        IN  /\ Cardinality({k \in 1..Len(c.slugs) : c.slugs[k] # << >>}) = 1
            /\ c.branch = "single"
            /\ \E k \in 1..Len(c.slugs) :
                  /\ c.slugs[k] # << >>
                  /\ label = [j \in 1..Len(c.slugs[k]) |->
                                 IF c.slugs[k][j] = " " THEN "-"
                                 ELSE c.slugs[k][j]]
                             \o << ":", " " >> \o c.assignment

\* C10's case: a block that lists two section codes, the second with its
\* suffix, has been formatted through _format_with_slug.
C10_Witness ==
    /\ slug_call # << >>
    /\ HasBlock(event_name)
    /\ IsSectionPair(LastBlock(event_name))
    /\ slug_call[1].branch = "single"
    /\ label # << >>

(***************************************************************************)
(* Properties of a run of main, checked under Spec                         *)
(***************************************************************************)

\* The raw title holds "PAL" or "Training" somewhere, case and all.
IsExcluded(name) ==
    \/ \E i \in 1..(Len(name) - 2) : SubSeq(name, i, i + 2) = << "P", "A", "L" >>
    \/ \E i \in 1..(Len(name) - 7) :
          SubSeq(name, i, i + 7) = << "T", "r", "a", "i", "n", "i", "n", "g" >>

\* The titles of the pool that are excluded.
ExcludedTitles ==
    {n \in {EventPool[k].name : k \in 1..Len(EventPool)} : IsExcluded(n)}

\* The labels of the titles of the pool, in the order of the pool, as the
\* source returns them.
PoolLabels ==
    << <<"M", "A", "T", "H", "-", "2", "1", "6", "4", ":", " ", "H", "o", "m", "e", "w", "o", "r", "k", " ", "3">>,
       <<"I", "n", "t", "r", "o", " ", "t", "o", " ", "A", "r", "t", ":", " ", "E", "s", "s", "a", "y">>,
       <<"M", "A", "T", "H", "-", "2", "1", "6", "4", ":", " ", "P", "A", "L", " ", "S", "e", "s", "s", "i", "o", "n">>,
       <<"O", "P", "A", "L", "-", "1", "0", "1", "0", ":", " ", "L", "a", "b">>,
       <<"S", "a", "f", "e", "t", "y", " ", "T", "r", "a", "i", "n", "i", "n", "g", ":", " ", "M", "o", "d", "u", "l", "e", " ", "1">>,
       <<"P", "a", "l", " ", "t", "r", "a", "i", "n", "i", "n", "g", ":", " ", "N", "o", "t", "e", "s">>,
       <<"O", "f", "f", "i", "c", "e", " ", "h", "o", "u", "r", "s">> >>

\* The label of a title of the pool.
PoolLabel(name) ==
    PoolLabels[CHOOSE k \in 1..Len(EventPool) : EventPool[k].name = name]

\* The labels of the first n events of the calendar that start on date d
\* and are not excluded, in calendar order.
RECURSIVE KeptLabels(_, _)
KeptLabels(n, d) ==
    IF n = 0 THEN << >>
    ELSE KeptLabels(n - 1, d)
            \o (IF calendar[n].begin.date = d
                                           /\ calendar[n].name \notin ExcludedTitles
                THEN << PoolLabel(calendar[n].name) >> ELSE << >>)

\* The dates of the first n events of the calendar.
Dates(n) == {calendar[k].begin.date : k \in 1..n}

\* The events among the first n that are not excluded.
Kept(n) == {k \in 1..n : calendar[k].name \notin ExcludedTitles}

\* The printed lines of one kind.
Lines(kind) == {p \in 1..Len(out) : out[p].kind = kind}

\* C3: an event whose raw title holds "PAL" or "Training" adds no label to
\* the mapping and no line to the output, whatever _format_event would make
\* of it: the mapping holds the labels of the other events met so far, and
\* the output one line for each of them.
C3_ExcludedLeaveNoTrace ==
    /\ \A d \in Dates(idx) \cup DOMAIN events_by_day :
          LET labels == KeptLabels(idx, d)
          IN  IF labels = << >> THEN d \notin DOMAIN events_by_day
              ELSE d \in DOMAIN events_by_day /\ events_by_day[d] = labels
    /\ Cardinality(Lines("event")) <= Cardinality(Kept(idx))
    /\ (pc = "done" /\ exit_status = 0) =>
          Cardinality(Lines("event")) = Cardinality(Kept(Len(calendar)))

\* C3's case: a run has ended that met an excluded event with a bracket
\* block _format_event would have formatted, on a date it shares with no
\* kept event, and a kept event as well.
C3_Witness ==
    /\ pc = "done" /\ exit_status = 0
    /\ \E k \in 1..Len(calendar) :
          /\ IsExcluded(calendar[k].name)
          /\ HasBlock(calendar[k].name)
          /\ calendar[k].begin.date \notin DOMAIN events_by_day
    /\ Lines("event") # {}

\* A date as a number that grows with the date.
DayNumber(d) == (d[1] * 12 + d[2]) * 31 + d[3]

\* The lines of the day block whose header is line p.
BlockLines(p) ==
    {q \in (p + 1)..Len(out) : \A r \in (p + 1)..q : out[r].kind = "event"}

\* C5: after a successful load the output has one block for each date of a
\* kept event, the blocks in strictly ascending date order, each with the
\* labels of the kept events of its date, one line an event, in ascending
\* lexicographic order.
C5_BlocksGroupedAndSorted ==
    (pc = "done" /\ exit_status = 0) =>
        LET kept == Kept(Len(calendar))
            headers == Lines("header")
        IN  /\ \A p \in 1..Len(out) : out[p].kind \in {"header", "event"}
            /\ out # << >> => out[1].kind = "header"
            /\ {out[p].day : p \in headers} =
                   {calendar[k].begin.date : k \in kept}
            /\ \A p, q \in headers :
                   p < q => DayNumber(out[p].day) < DayNumber(out[q].day)
            /\ \A p \in headers :
                   LET block == BlockLines(p)
                       events == {k \in kept : calendar[k].begin.date = out[p].day}
                   IN  /\ Cardinality(block) = Cardinality(events)
                       /\ \A q \in block :
                              Cardinality({r \in block : out[r].text = out[q].text})
                                  = Cardinality({k \in events :
                                        PoolLabel(calendar[k].name) = out[q].text})
                       /\ \A q, r \in block :
                              q < r => ~StrLess(out[r].text, out[q].text)

\* C5's case: a run has printed two day blocks from a calendar that lists the
\* later date first, one block holding two events of one date and different
\* times that the calendar lists in the other order.
C5_Witness ==
    /\ pc = "done" /\ exit_status = 0
    /\ Cardinality(Lines("header")) >= 2
    /\ \E a, b \in 1..Len(calendar) :
          a < b /\ DayNumber(calendar[b].begin.date)
                      < DayNumber(calendar[a].begin.date)
    /\ \E a, b \in Kept(Len(calendar)) :
          /\ a < b
          /\ calendar[a].begin.date = calendar[b].begin.date
          /\ calendar[a].begin.time # calendar[b].begin.time
          /\ StrLess(PoolLabel(calendar[b].name), PoolLabel(calendar[a].name))
          /\ \E p \in Lines("header") : \E q, r \in BlockLines(p) :
                /\ q < r
                /\ out[q].text = PoolLabel(calendar[b].name)
                /\ out[r].text = PoolLabel(calendar[a].name)

C7_HandleReleased ==
    /\ pc \in {"loop", "print", "raised", "done"} => handle # "open"
    /\ pc \in {"loop", "print"} => handle = "closed"
    /\ (pc = "done" /\ exit_status = 0) => handle = "closed"
    /\ (raised # << >> /\ raised[1].msg[2] \in {"read", "parse"}) =>
          handle = "closed"

\* C7's case: the parser has raised on an open file and the run has ended
\* with the error exit.
C7_Witness ==
    /\ pc = "done"
    /\ exit_status = 1
    /\ raised # << >>
    /\ raised[1].msg[2] = "parse"
    /\ handle = "closed"

====
